---- MODULE Spec2Model ----
(***************************************************************************)
(* Model of src/src/index.js: the /generate-app build pipeline and the     *)
(* /download/:buildId one-shot artifact endpoint.                          *)
(*                                                                         *)
(* Node runs each handler on one event loop: the code between two awaits   *)
(* (or between an await and a callback) is atomic, so every action below   *)
(* is one such stretch of a handler.  Text is a sequence of chunks; the    *)
(* characters $ & ` ' that String.prototype.replace interprets in a        *)
(* replacement are chunks of their own.                                    *)
(***************************************************************************)
EXTENDS Integers, Sequences, FiniteSets, TLC

VARIABLES
    template,   \* the TemplateProject's three text files
    req,        \* one record per /generate-app request
    stage,      \* the upload staging directories under the temp root
    ws,         \* the workspaces under the temp root, by buildId
    dl,         \* one record per /download request
    serverUp    \* the node process is running

vars == <<template, req, stage, ws, dl, serverUp>>

\* ---------------------------------------------------------------- bounds

NumReqs == 1
NumDownloads == 2
\* The bounds of the specification of concurrent builds.
NumPairReqs == 2
NumPairDownloads == 1

Reqs == 1..NumReqs
Dls == 1..NumDownloads
PairReqs == 1..NumPairReqs
PairDls == 1..NumPairDownloads

\* The buildId path parameter that path.join resolves out of the temp root
\* and into the template directory ("../templates/android-webview", sent
\* with its slashes percent-encoded); a number no request's workspace has.
TemplateId == NumReqs + NumPairReqs + 1

\* A buildId path parameter: the id of a request's workspace, 0, an id
\* that names no directory, or the id that resolves to the template.
Ids == (0..NumReqs) \cup {TemplateId}
PairIds == (0..NumPairReqs) \cup {TemplateId}

\* ---------------------------------------------------------------- text

TokPackageName == <<"{{", "PACKAGE_NAME", "}}">>
TokAppName == <<"{{", "APP_NAME", "}}">>
TokVersion == <<"{{", "VERSION", "}}">>
TokUrl == <<"{{", "URL", "}}">>

\* String.prototype.indexOf: the first position of pat in s, 0 when absent.
IndexOf(s, pat) ==
    LET hits == {i \in 1..(Len(s) - Len(pat) + 1) :
                    SubSeq(s, i, i + Len(pat) - 1) = pat}
    IN IF hits = {} THEN 0 ELSE CHOOSE i \in hits : \A j \in hits : i <= j

\* GetSubstitution for a string pattern (no captures): $$ is a dollar, $& the
\* match, $` the text before it, $' the text after it; any other $ is kept.
RECURSIVE GetSubstitution(_, _, _, _)
GetSubstitution(rep, matched, before, after) ==
    IF rep = <<>> THEN <<>>
    ELSE IF Head(rep) = "$" /\ Len(rep) >= 2 /\ rep[2] \in {"$", "&", "`", "'"}
    THEN LET rest == SubSeq(rep, 3, Len(rep))
             out == CASE rep[2] = "$" -> <<"$">>
                      [] rep[2] = "&" -> matched
                      [] rep[2] = "`" -> before
                      [] rep[2] = "'" -> after
         IN out \o GetSubstitution(rest, matched, before, after)
    ELSE <<Head(rep)>> \o GetSubstitution(Tail(rep), matched, before, after)

\* String.prototype.replace(pat, rep) with a string pattern: the first
\* occurrence only, the replacement expanded by GetSubstitution.
StringReplace(s, pat, rep) ==
    LET i == IndexOf(s, pat)
    IN IF i = 0 THEN s
       ELSE LET before == SubSeq(s, 1, i - 1)
                after == SubSeq(s, i + Len(pat), Len(s))
            IN before \o GetSubstitution(rep, pat, before, after) \o after

SubstManifest(m, f) ==
    StringReplace(
        StringReplace(
            StringReplace(m, TokPackageName, f.packageName),
            TokAppName, f.appName),
        TokVersion, f.version)

SubstGradle(g, f) ==
    StringReplace(StringReplace(g, TokPackageName, f.packageName),
                  TokVersion, f.version)

SubstMainActivity(a, f) == StringReplace(a, TokUrl, f.url)

\* ---------------------------------------------------------------- inputs

FieldNames == {"appName", "packageName", "version", "url"}

NoFields == [appName |-> <<>>, packageName |-> <<>>, version |-> <<>>, url |-> <<>>]

PlainFields ==
    [appName |-> <<"MyApp">>, packageName |-> <<"com.my.app">>,
     version |-> <<"1.0">>, url |-> <<"https://my.app">>]

\* The lifecycle's requests: complete, or with one required field omitted.
NarrowFields ==
    {PlainFields} \cup {[PlainFields EXCEPT ![k] = <<>>] : k \in FieldNames}

\* Field values for the substitution: plain text, text with a replacement
\* pattern, text with a placeholder token.
Values ==
    {<<"v">>, <<"a", "$", "&">>, <<"$", "$">>, TokAppName, TokVersion}

WideFields ==
    [appName : Values, packageName : Values, version : Values, url : Values]

\* The htmlFile upload: absent, a file, or a .zip archive.
HtmlKinds == {"none", "plain", "zip"}

\* The lifecycle's htmlFile uploads: absent or a file.
NarrowKinds == {"none", "plain"}

\* The template places each placeholder once.  It is a project skeleton: it
\* holds no build output (apk), which exists only after a build.
StdTemplate ==
    [manifest |-> <<"package=">> \o TokPackageName \o <<"label=">>
                    \o TokAppName \o <<"versionName=">> \o TokVersion,
     gradle |-> <<"applicationId ">> \o TokPackageName
                    \o <<"versionName ">> \o TokVersion,
     main |-> <<"loadUrl(">> \o TokUrl \o <<")">>,
     apk |-> FALSE]

\* A template that repeats placeholders.
RepeatTemplate ==
    [manifest |-> <<"package=">> \o TokPackageName \o <<"label=">>
                    \o TokAppName \o <<"versionName=">> \o TokVersion
                    \o <<"title=">> \o TokAppName,
     gradle |-> <<"applicationId ">> \o TokPackageName
                    \o <<"versionName ">> \o TokVersion
                    \o <<"testId ">> \o TokPackageName,
     main |-> <<"loadUrl(">> \o TokUrl \o <<")">> \o <<"home=">> \o TokUrl,
     apk |-> FALSE]

Templates == {StdTemplate, RepeatTemplate}

\* ---------------------------------------------------------------- state

NewReq ==
    [pc |-> "new", fields |-> NoFields, icon |-> FALSE, html |-> "none",
     status |-> 0, error |-> "", downloadUrl |-> 0, sent |-> 0,
     exit |-> "none", apkSeen |-> FALSE, ioFault |-> FALSE]

NoWorkspace ==
    [exists |-> FALSE, manifest |-> <<>>, gradle |-> <<>>, main |-> <<>>,
     icon |-> "none", web |-> "none", apk |-> FALSE]

NewDownload ==
    [pc |-> "idle", id |-> 0, status |-> 0, streamErr |-> FALSE, removed |-> FALSE]

\* The state after start-up, for requests R and downloads D still to come.
InitOf(T, R, D) ==
    /\ template \in T
    /\ req = [r \in R |-> NewReq]
    /\ stage = [r \in R |-> [icon |-> FALSE, html |-> FALSE]]
    /\ ws = [r \in R |-> NoWorkspace]
    /\ dl = [d \in D |-> NewDownload]
    /\ serverUp = TRUE

InitWith(T) == InitOf(T, Reqs, Dls)

Init == InitWith({StdTemplate})

\* ---------------------------------------------------------------- POST /generate-app

\* The validation without its test of url.
MissingRequired_NoUrl(f) ==
    f.appName = <<>> \/ f.packageName = <<>> \/ f.version = <<>>

\* !appName || !packageName || !version || !url: an absent or empty field.
MissingRequired(f) ==
    f.appName = <<>> \/ f.packageName = <<>> \/ f.version = <<>> \/ f.url = <<>>

Respond(r, code, msg, url) ==
    [req[r] EXCEPT !.pc = "done", !.status = code, !.error = msg,
                   !.downloadUrl = url, !.sent = @ + 1]

\* The catch block of the handler: a filesystem error inside the try.
Catch500(r) ==
    [Respond(r, 500, "Internal server error", 0) EXCEPT !.ioFault = TRUE]

\* The control flow without its icon step.
AfterGradle_SkipsIcon(q) == IF q.html # "none" THEN "html" ELSE "main"

\* The position after the gradle rewrite and after the icon copy: the code runs
\* on to its next await.
AfterGradle(q) ==
    IF q.icon THEN "icon" ELSE IF q.html # "none" THEN "html" ELSE "main"

\* The control flow without its web content step.
AfterIcon_SkipsHtml(q) == "main"

AfterIcon(q) == IF q.html # "none" THEN "html" ELSE "main"

\* One directory for every request.
BuildDir_Shared(r) == 1

\* buildId = uuidv4(), buildDir = temp/<buildId>: a fresh directory, named in
\* the model by the index of the request that makes it.
BuildDir(r) == r

\* A build run in the handler's own turn (execSync): it holds the event loop
\* until the tool has exited.
BuildBlocksLoop_ExecSync(q) == q.pc \in {"building", "packaged"}

\* exec() starts the build as a child process and returns at once: a build in
\* flight does not hold the event loop.
BuildBlocksLoop(q) == FALSE

\* The server can run a step for request r (0: for a download): the process is
\* up and no other request's build holds the event loop.
Serving(r) ==
    serverUp /\ \A o \in DOMAIN req \ {r} : ~BuildBlocksLoop(req[o])

\* The 400 response without its return: the handler runs on.
AfterValidationFailure_NoReturn(q) == "copy"

\* The position after the 400 response: return ends the handler.
AfterValidationFailure(q) == "done"

\* A move in place of the copy: the source is left without its files.
TemplateAfterCopy_Move(t) ==
    [t EXCEPT !.manifest = <<>>, !.gradle = <<>>, !.main = <<>>]

\* fs.copy reads its source and leaves it as it was.
TemplateAfterCopy(t) == t

\* multer's diskStorage: one fresh directory under the temp root per uploaded
\* file, made before the handler runs.  Requests arrive in index order.
Upload(r, F, K) ==
    /\ Serving(r)
    /\ req[r].pc = "new"
    /\ IF r = 1 THEN TRUE ELSE req[r - 1].pc # "new"
    /\ \E f \in F, icon \in BOOLEAN, html \in K :
          /\ req' = [req EXCEPT ![r] = [@ EXCEPT !.pc = "staged", !.fields = f,
                                                 !.icon = icon, !.html = html]]
          /\ stage' = [stage EXCEPT ![r] = [icon |-> icon, html |-> html # "none"]]
    /\ UNCHANGED <<template, ws, dl, serverUp>>

\* Validation, then ensureDirSync(buildDir) and the start of the template copy.
HandlerStart(r) ==
    /\ Serving(r)
    /\ req[r].pc = "staged"
    /\ IF MissingRequired(req[r].fields)
       THEN /\ req' = [req EXCEPT ![r] =
                         [Respond(r, 400, "Missing required fields", 0)
                             EXCEPT !.pc = AfterValidationFailure(req[r])]]
            /\ ws' = ws
       ELSE \E ok \in BOOLEAN :
            IF ok
            THEN /\ ws' = [ws EXCEPT ![BuildDir(r)].exists = TRUE]
                 /\ req' = [req EXCEPT ![r].pc = "copy"]
            ELSE /\ ws' = ws
                 /\ req' = [req EXCEPT ![r] = Catch500(r)]
    /\ UNCHANGED <<template, stage, dl, serverUp>>

\* await fs.copy(templateDir, buildDir)
CopyTemplate(r) ==
    /\ Serving(r)
    /\ req[r].pc = "copy"
    /\ \E ok \in BOOLEAN :
          IF ok
          THEN /\ ws' = [ws EXCEPT ![BuildDir(r)] =
                            [@ EXCEPT !.manifest = template.manifest,
                                      !.gradle = template.gradle,
                                      !.main = template.main,
                                      !.icon = "template",
                                      !.web = "template",
                                      !.apk = template.apk]]
               /\ template' = TemplateAfterCopy(template)
               /\ req' = [req EXCEPT ![r].pc = "manifest"]
          ELSE /\ ws' = ws
               /\ template' = template
               /\ req' = [req EXCEPT ![r] = Catch500(r)]
    /\ UNCHANGED <<stage, dl, serverUp>>

\* AndroidManifest.xml: readFile, the replace chain, writeFile.  The file is
\* inside the request's own workspace and no other handler touches it.
RewriteManifest(r) ==
    /\ Serving(r)
    /\ req[r].pc = "manifest"
    /\ \E ok \in BOOLEAN :
          IF ok
          THEN /\ ws' = [ws EXCEPT ![BuildDir(r)].manifest = SubstManifest(@, req[r].fields)]
               /\ req' = [req EXCEPT ![r].pc = "gradle"]
          ELSE /\ ws' = ws
               /\ req' = [req EXCEPT ![r] = Catch500(r)]
    /\ UNCHANGED <<template, stage, dl, serverUp>>

\* app/build.gradle: readFile, the replace chain, writeFile.
RewriteGradle(r) ==
    /\ Serving(r)
    /\ req[r].pc = "gradle"
    /\ \E ok \in BOOLEAN :
          IF ok
          THEN /\ ws' = [ws EXCEPT ![BuildDir(r)].gradle = SubstGradle(@, req[r].fields)]
               /\ req' = [req EXCEPT ![r].pc = AfterGradle(req[r])]
          ELSE /\ ws' = ws
               /\ req' = [req EXCEPT ![r] = Catch500(r)]
    /\ UNCHANGED <<template, stage, dl, serverUp>>

\* if (files.icon) await fs.copy(iconPath, targetIconPath)
InjectIcon(r) ==
    /\ Serving(r)
    /\ req[r].pc = "icon"
    /\ \E ok \in BOOLEAN :
          IF ok
          THEN /\ ws' = [ws EXCEPT ![BuildDir(r)].icon = "uploaded"]
               /\ req' = [req EXCEPT ![r].pc = AfterIcon(req[r])]
          ELSE /\ ws' = ws
               /\ req' = [req EXCEPT ![r] = Catch500(r)]
    /\ UNCHANGED <<template, stage, dl, serverUp>>

\* if (files.htmlFile): a .zip is extracted into assets/web, any other file is
\* copied to assets/web/index.html.
InjectWeb(r) ==
    /\ Serving(r)
    /\ req[r].pc = "html"
    /\ \E ok \in BOOLEAN :
          IF ok
          THEN /\ ws' = [ws EXCEPT ![BuildDir(r)].web =
                            IF req[r].html = "zip" THEN "extracted" ELSE "index"]
               /\ req' = [req EXCEPT ![r].pc = "main"]
          ELSE /\ ws' = ws
               /\ req' = [req EXCEPT ![r] = Catch500(r)]
    /\ UNCHANGED <<template, stage, dl, serverUp>>

\* MainActivity.java: readFile, replace, writeFile; exec() is then called in the
\* same turn, so the build is in flight when this step ends.
RewriteMain(r) ==
    /\ Serving(r)
    /\ req[r].pc = "main"
    /\ \E ok \in BOOLEAN :
          IF ok
          THEN /\ ws' = [ws EXCEPT ![BuildDir(r)].main = SubstMainActivity(@, req[r].fields)]
               /\ req' = [req EXCEPT ![r].pc = "building"]
          ELSE /\ ws' = ws
               /\ req' = [req EXCEPT ![r] = Catch500(r)]
    /\ UNCHANGED <<template, stage, dl, serverUp>>

\* The external build tool writes app-debug.apk into the workspace.  It is a
\* process of its own: it runs whether or not the server still does.
BuildToolWrites(r) ==
    /\ req[r].pc = "building"
    /\ ws' = [ws EXCEPT ![BuildDir(r)].apk = TRUE]
    /\ req' = [req EXCEPT ![r].pc = "packaged"]
    /\ UNCHANGED <<template, stage, dl, serverUp>>

\* The callback without its test that the artifact exists.
CallbackBranch_IgnoresArtifact(error, apkExists) ==
    IF error THEN "buildError" ELSE "cleanup"

\* The branch the exec callback takes: if (error) ..., else if
\* (fs.existsSync(apkPath)) ..., else ...
CallbackBranch(error, apkExists) ==
    IF error THEN "buildError"
    ELSE IF apkExists THEN "cleanup" ELSE "missing"

\* The async callback throws or rejects outside any try: nothing answers the
\* request any more.  Depending on the runtime's unhandled-rejection policy
\* the process goes on or terminates.
Rejected(r, fault) ==
    [req[r] EXCEPT !.pc = "rejected", !.ioFault = fault]

\* res.json({success: true, apkPath, downloadUrl: `/download/${buildId}`})
RespondSuccess(r) == Respond(r, 200, "", BuildDir(r))

\* The exec callback up to its first await.  On the cleanup branch
\* files.icon[0] is read whether or not an icon was uploaded.
ExecCallback(r, error) ==
    /\ Serving(r)
    /\ req[r].pc \in {"building", "packaged"}
    /\ LET branch == CallbackBranch(error, ws[BuildDir(r)].apk)
           q == [req[r] EXCEPT !.exit = IF error THEN "nonzero" ELSE "zero",
                               !.apkSeen = ~error /\ ws[BuildDir(r)].apk]
       IN CASE branch = "buildError" ->
                 /\ req' = [req EXCEPT ![r] = [q EXCEPT !.pc = "done", !.status = 500,
                                                        !.error = "Failed to build APK",
                                                        !.sent = @ + 1]]
                 /\ serverUp' = serverUp
            [] branch = "missing" ->
                 /\ req' = [req EXCEPT ![r] = [q EXCEPT !.pc = "done", !.status = 500,
                                                        !.error = "APK generation failed",
                                                        !.sent = @ + 1]]
                 /\ serverUp' = serverUp
            [] branch = "cleanup" ->
                 IF q.icon
                 THEN /\ req' = [req EXCEPT ![r] = [q EXCEPT !.pc = "rmIcon"]]
                      /\ serverUp' = serverUp
                 ELSE /\ req' = [req EXCEPT ![r] = [q EXCEPT !.pc = "rejected"]]
                      /\ serverUp' \in BOOLEAN
    /\ UNCHANGED <<template, stage, ws, dl>>

\* await fs.remove(path.dirname(files.icon[0].path)), then on to the htmlFile
\* test and, with no htmlFile, to the response.
RemoveIconStaging(r) ==
    /\ Serving(r)
    /\ req[r].pc = "rmIcon"
    /\ \E ok \in BOOLEAN :
          IF ok
          THEN /\ stage' = [stage EXCEPT ![r].icon = FALSE]
               /\ req' = [req EXCEPT ![r] =
                            IF req[r].html # "none"
                            THEN [@ EXCEPT !.pc = "rmHtml"]
                            ELSE RespondSuccess(r)]
               /\ serverUp' = serverUp
          ELSE /\ stage' = stage
               /\ req' = [req EXCEPT ![r] = Rejected(r, TRUE)]
               /\ serverUp' \in BOOLEAN
    /\ UNCHANGED <<template, ws, dl>>

\* await fs.remove(path.dirname(files.htmlFile[0].path)), then res.json.
RemoveHtmlStaging(r) ==
    /\ Serving(r)
    /\ req[r].pc = "rmHtml"
    /\ \E ok \in BOOLEAN :
          IF ok
          THEN /\ stage' = [stage EXCEPT ![r].html = FALSE]
               /\ req' = [req EXCEPT ![r] = RespondSuccess(r)]
               /\ serverUp' = serverUp
          ELSE /\ stage' = stage
               /\ req' = [req EXCEPT ![r] = Rejected(r, TRUE)]
               /\ serverUp' \in BOOLEAN
    /\ UNCHANGED <<template, ws, dl>>

\* ---------------------------------------------------------------- GET /download/:buildId

\* A test for the workspace directory in place of the artifact.
ArtifactExists_WorkspaceOnly(id) == id \in DOMAIN ws /\ ws[id].exists

\* fs.existsSync(temp/<buildId>/app/build/outputs/apk/debug/app-debug.apk):
\* the path is joined from the decoded parameter as it came, so it lies in a
\* workspace, in no directory at all, or in the template.
ArtifactExists(id) ==
    IF id = TemplateId THEN template.apk ELSE id \in DOMAIN ws /\ ws[id].apk

\* A removal of the directory the buildId names in place of the artifact's.
RemoveArtifactDir_WholeDirectory(w) == [w EXCEPT !.exists = FALSE, !.apk = FALSE]

\* fs.remove(path.dirname(apkPath)): the directory that holds the artifact,
\* app/build/outputs/apk/debug, with everything in it.
RemoveArtifactDir(w) == [w EXCEPT !.apk = FALSE]

\* The handler: 404 when the artifact is absent, else res.download starts the
\* stream.  Downloads arrive in index order.
DownloadStart(d, id) ==
    /\ Serving(0)
    /\ dl[d].pc = "idle"
    /\ IF d = 1 THEN TRUE ELSE dl[d - 1].pc # "idle"
    /\ dl' = [dl EXCEPT ![d] =
                IF ArtifactExists(id)
                THEN [@ EXCEPT !.pc = "streaming", !.id = id, !.status = 200]
                ELSE [@ EXCEPT !.pc = "done", !.id = id, !.status = 404]]
    /\ UNCHANGED <<template, req, stage, ws, serverUp>>

\* The res.download callback: the stream ended, with or without an error, and
\* the artifact's directory is removed; a failed removal is only logged.
DownloadEnd(d, err) ==
    /\ Serving(0)
    /\ dl[d].pc = "streaming"
    /\ \E ok \in BOOLEAN :
          /\ ws' = IF ok /\ dl[d].id \in DOMAIN ws
                   THEN [ws EXCEPT ![dl[d].id] = RemoveArtifactDir(@)] ELSE ws
          /\ template' = IF ok /\ dl[d].id = TemplateId
                         THEN RemoveArtifactDir(template) ELSE template
          /\ dl' = [dl EXCEPT ![d] = [@ EXCEPT !.pc = "done", !.streamErr = err,
                                               !.removed = ok]]
    /\ UNCHANGED <<req, stage, serverUp>>

\* ---------------------------------------------------------------- specifications

Next ==
    \/ \E r \in Reqs : Upload(r, NarrowFields, NarrowKinds)
    \/ \E r \in Reqs : HandlerStart(r)
    \/ \E r \in Reqs : CopyTemplate(r)
    \/ \E r \in Reqs : RewriteManifest(r)
    \/ \E r \in Reqs : RewriteGradle(r)
    \/ \E r \in Reqs : InjectIcon(r)
    \/ \E r \in Reqs : InjectWeb(r)
    \/ \E r \in Reqs : RewriteMain(r)
    \/ \E r \in Reqs : BuildToolWrites(r)
    \/ \E r \in Reqs, error \in BOOLEAN : ExecCallback(r, error)
    \/ \E r \in Reqs : RemoveIconStaging(r)
    \/ \E r \in Reqs : RemoveHtmlStaging(r)
    \/ \E d \in Dls, id \in Ids : DownloadStart(d, id)
    \/ \E d \in Dls, err \in BOOLEAN : DownloadEnd(d, err)

Spec == Init /\ [][Next]_vars

\* The substitution on its own: one request, every combination of field
\* values, both templates, up to the start of the build.
SubstInit == InitWith(Templates)

SubstNext ==
    \/ Upload(1, WideFields, HtmlKinds)
    \/ HandlerStart(1)
    \/ CopyTemplate(1)
    \/ RewriteManifest(1)
    \/ RewriteGradle(1)
    \/ InjectIcon(1)
    \/ InjectWeb(1)
    \/ RewriteMain(1)

SpecSubst == SubstInit /\ [][SubstNext]_vars

\* Concurrent builds: several requests with all four fields, each with or
\* without uploads, and downloads of any buildId.
PairInit == InitOf({StdTemplate}, PairReqs, PairDls)

PairNext ==
    \/ \E r \in PairReqs : Upload(r, {PlainFields}, NarrowKinds)
    \/ \E r \in PairReqs : HandlerStart(r)
    \/ \E r \in PairReqs : CopyTemplate(r)
    \/ \E r \in PairReqs : RewriteManifest(r)
    \/ \E r \in PairReqs : RewriteGradle(r)
    \/ \E r \in PairReqs : InjectIcon(r)
    \/ \E r \in PairReqs : InjectWeb(r)
    \/ \E r \in PairReqs : RewriteMain(r)
    \/ \E r \in PairReqs : BuildToolWrites(r)
    \/ \E r \in PairReqs, error \in BOOLEAN : ExecCallback(r, error)
    \/ \E r \in PairReqs : RemoveIconStaging(r)
    \/ \E r \in PairReqs : RemoveHtmlStaging(r)
    \/ \E d \in PairDls, id \in PairIds : DownloadStart(d, id)
    \/ \E d \in PairDls, err \in BOOLEAN : DownloadEnd(d, err)

SpecPair == PairInit /\ [][PairNext]_vars

\* ---------------------------------------------------------------- properties

\* The handler of the request has ended: it answered, or its callback rejected
\* and nothing is left to answer.
Terminal(q) == q.pc \in {"done", "rejected"}

\* The handler has run its validation.
Handled(q) == q.pc \notin {"new", "staged"}

\* The request omits one of the four required fields.
OmitsField(q) == \E k \in FieldNames : q.fields[k] = <<>>

\* The downloads of buildId id that were answered 200, streamed to the end
\* without error and removed the artifact's directory.
CleanDownloads(id) ==
    {d \in Dls : /\ dl[d].pc = "done" /\ dl[d].id = id /\ dl[d].status = 200
                 /\ ~dl[d].streamErr /\ dl[d].removed}

\* C1: for a workspace whose build succeeded, at most one GET /download of its
\* buildId returns 200 with the artifact, whether or not the requests overlap.
C1_OneShotDownload ==
    \A id \in Reqs : req[id].status = 200 => Cardinality(CleanDownloads(id)) <= 1

\* C2: with neither, either or both uploads, a complete request whose build
\* exits zero and leaves the artifact is answered 200 with its downloadUrl once
\* its handler has ended (no filesystem operation having failed).
C2_UploadsOptional ==
    \A r \in Reqs :
        (/\ Terminal(req[r]) /\ req[r].exit = "zero" /\ req[r].apkSeen
         /\ ~req[r].ioFault)
        => (req[r].status = 200 /\ req[r].downloadUrl = r)

\* C3 as claimed: a request that omits a required field is answered 400 and
\* leaves no directory of its own under the temp root, uploads or not.
C3_NoDirectoryOnMissingField ==
    \A r \in Reqs :
        (Handled(req[r]) /\ OmitsField(req[r]))
        => (/\ req[r].status = 400
            /\ ~ws[r].exists /\ ~stage[r].icon /\ ~stage[r].html)

\* C3 as amended: a request that omits a required field is answered 400 and no
\* workspace is created for it; the directories it adds under the temp root
\* are the staging directories of its uploaded files, one per file, which stay.
C3_NoWorkspaceOnMissingField ==
    \A r \in Reqs :
        (Handled(req[r]) /\ OmitsField(req[r]))
        => (/\ req[r].status = 400 /\ req[r].error = "Missing required fields"
            /\ req[r].downloadUrl = 0
            /\ ws[r] = NoWorkspace
            /\ stage[r].icon = req[r].icon
            /\ stage[r].html = (req[r].html # "none"))

C3_Witness ==
    \E r \in Reqs : req[r].status = 400 /\ req[r].icon /\ stage[r].icon

\* C4: after a nonzero exit the request is answered 500 without a downloadUrl,
\* its workspace still exists, and no GET /download of its buildId that
\* arrives afterwards is answered 200.
C4_FailedBuildNotDownloadable ==
    [][\A r \in Reqs :
          req[r].exit = "nonzero"
          => (/\ req[r].status = 500 /\ req[r].downloadUrl = 0 /\ ws[r].exists
              /\ \A d \in Dls :
                    (dl[d].pc = "idle" /\ dl'[d].pc # "idle" /\ dl'[d].id = r)
                    => dl'[d].status # 200)]_vars

\* C5: once a download has streamed the artifact and run its cleanup, nothing
\* of the workspace remains under the temp root.
C5_WorkspaceDeletedAfterDownload ==
    \A d \in Dls :
        (dl[d].pc = "done" /\ dl[d].status = 200 /\ dl[d].removed)
        => ~ws[dl[d].id].exists

\* C6: for a build that succeeded, the staging directory of every uploaded
\* asset is deleted by the time the handler has ended, no staging directory is
\* deleted before the success response is sent, and the workspace exists as
\* long as no download of its buildId was answered 200.
C6_StagingDeletedAfterResponse ==
    \A r \in Reqs :
        (req[r].exit = "zero" /\ req[r].apkSeen)
        => (/\ (Terminal(req[r]) /\ ~req[r].ioFault)
                  => (~stage[r].icon /\ ~stage[r].html)
            /\ ((req[r].icon /\ ~stage[r].icon)
                  \/ (req[r].html # "none" /\ ~stage[r].html))
                  => req[r].status = 200
            /\ (\A d \in Dls : ~(dl[d].id = r /\ dl[d].status = 200))
                  => ws[r].exists)

\* C7: a request one of whose filesystem operations failed after validation
\* is answered 500; it is not left unanswered.
C7_IOFailureAnswered500 ==
    \A r \in Reqs : (req[r].ioFault /\ Terminal(req[r])) => req[r].status = 500

\* C8: a zero exit with the artifact absent at the callback's check is
\* answered 500 with an error other than the nonzero-exit error and without a
\* downloadUrl; a success response implies a zero exit and an artifact that
\* existed at that check.
C8_ArtifactMissingIsDistinctFailure ==
    \A r \in Reqs :
        /\ (req[r].exit = "zero" /\ ~req[r].apkSeen)
              => (/\ req[r].status = 500
                  /\ req[r].error = "APK generation failed"
                  /\ req[r].error # "Failed to build APK"
                  /\ req[r].downloadUrl = 0)
        /\ req[r].exit = "nonzero" => req[r].error = "Failed to build APK"
        /\ req[r].status = 200 => (req[r].exit = "zero" /\ req[r].apkSeen)

C8_Witness ==
    \E r \in Reqs :
        /\ req[r].exit = "zero" /\ ~req[r].apkSeen
        /\ req[r].status = 500 /\ req[r].error = "APK generation failed"

\* The value a request supplies for a placeholder token.
FieldOf(tok, f) ==
    CASE tok = TokPackageName -> f.packageName
      [] tok = TokAppName -> f.appName
      [] tok = TokVersion -> f.version
      [] tok = TokUrl -> f.url

\* Template text t with the supplied value written, as it is, at every place
\* where t holds one of the tokens toks; all other text of t kept.
RECURSIVE Filled(_, _, _)
Filled(t, toks, f) ==
    IF t = <<>> THEN <<>>
    ELSE LET here == {k \in toks : Len(t) >= Len(k) /\ SubSeq(t, 1, Len(k)) = k}
         IN IF here = {}
            THEN <<Head(t)>> \o Filled(Tail(t), toks, f)
            ELSE LET k == CHOOSE k \in here : TRUE
                 IN FieldOf(k, f) \o Filled(SubSeq(t, Len(k) + 1, Len(t)), toks, f)

\* Text s with the first occurrence of tok, if any, replaced by val as it is.
FirstReplaced(s, tok, val) ==
    LET i == IndexOf(s, tok)
    IN IF i = 0 THEN s
       ELSE SubSeq(s, 1, i - 1) \o val \o SubSeq(s, i + Len(tok), Len(s))

\* C9: with any field values, once the three files are rewritten each equals
\* its template (one that places each placeholder once) with the supplied
\* values written at the placeholders and nothing else changed.
C9_SubstitutionExact ==
    \A r \in Reqs :
        (template = StdTemplate /\ req[r].pc = "building")
        => (/\ ws[r].manifest =
                  Filled(template.manifest,
                         {TokPackageName, TokAppName, TokVersion}, req[r].fields)
            /\ ws[r].gradle =
                  Filled(template.gradle, {TokPackageName, TokVersion}, req[r].fields)
            /\ ws[r].main = Filled(template.main, {TokUrl}, req[r].fields))

\* C10: in each rewritten file every replacement of the chain puts the
\* supplied value in place of the first occurrence of its token in the file
\* and leaves every later occurrence as it was.
C10_FirstOccurrenceOnly ==
    \A r \in Reqs :
        req[r].pc = "building"
        => LET f == req[r].fields
           IN /\ ws[r].manifest =
                    FirstReplaced(
                        FirstReplaced(
                            FirstReplaced(template.manifest, TokPackageName,
                                          f.packageName),
                            TokAppName, f.appName),
                        TokVersion, f.version)
              /\ ws[r].gradle =
                    FirstReplaced(
                        FirstReplaced(template.gradle, TokPackageName, f.packageName),
                        TokVersion, f.version)
              /\ ws[r].main = FirstReplaced(template.main, TokUrl, f.url)

\* exec() has been called for the request: the build is in flight or over.
BuildStarted(q) ==
    q.pc \in {"building", "packaged", "rmIcon", "rmHtml", "rejected"} \/ q.exit # "none"

\* The web content the upload of kind k leaves in assets/web.
InjectedWeb(k) == IF k = "zip" THEN "extracted" ELSE "index"

\* C11: for a request with an icon upload, when the build command is started
\* and at every later moment the icon path of its workspace holds the uploaded
\* icon, and the uploaded web content, if any, is in place as well.
C11_IconInPlaceAtBuild ==
    \A r \in DOMAIN req :
        (req[r].icon /\ BuildStarted(req[r])) =>
            /\ ws[r].icon = "uploaded"
            /\ req[r].html # "none" => ws[r].web = InjectedWeb(req[r].html)

\* A request with an icon and a web page whose build has just been started.
C11_Witness ==
    \E r \in DOMAIN req :
        /\ req[r].icon /\ req[r].html # "none" /\ req[r].pc = "building"
        /\ ws[r].icon = "uploaded"

\* The text still holds the placeholder.
HasToken(s, tok) == IndexOf(s, tok) # 0

\* AndroidManifest.xml and app/build.gradle of the workspace are written and
\* hold none of their placeholders any more.
ManifestAndGradleDone(w) ==
    /\ w.manifest # <<>> /\ w.gradle # <<>>
    /\ \A tok \in {TokPackageName, TokAppName, TokVersion} : ~HasToken(w.manifest, tok)
    /\ \A tok \in {TokPackageName, TokVersion} : ~HasToken(w.gradle, tok)

\* MainActivity.java of the workspace is written and holds no {{URL}} any more.
UrlDone(w) == w.main # <<>> /\ ~HasToken(w.main, TokUrl)

\* An uploaded asset is in the workspace.
AssetInjected(w) == w.icon = "uploaded" \/ w.web \in {"index", "extracted"}

\* Every asset the request uploaded is in its workspace.
UploadsInjected(r) ==
    /\ req[r].icon => ws[r].icon = "uploaded"
    /\ req[r].html # "none" => ws[r].web = InjectedWeb(req[r].html)

\* C12 as stated: every placeholder, {{URL}} included, is substituted in all
\* three files before any asset is injected, and the build is started only
\* after substitution and injection.
C12_SubstitutionBeforeInjection ==
    \A r \in DOMAIN req :
        /\ AssetInjected(ws[r]) => ManifestAndGradleDone(ws[r]) /\ UrlDone(ws[r])
        /\ BuildStarted(req[r]) =>
               ManifestAndGradleDone(ws[r]) /\ UrlDone(ws[r]) /\ UploadsInjected(r)

\* C12 amended: the manifest and build.gradle are substituted before any
\* asset is injected, {{URL}} is substituted after the assets are injected,
\* and the build is started only after all of it.
C12_InjectionBeforeUrl ==
    \A r \in DOMAIN req :
        /\ AssetInjected(ws[r]) => ManifestAndGradleDone(ws[r])
        /\ UrlDone(ws[r]) => UploadsInjected(r)
        /\ BuildStarted(req[r]) =>
               ManifestAndGradleDone(ws[r]) /\ UrlDone(ws[r]) /\ UploadsInjected(r)

\* A build started for a request with both uploads, everything in place.
C12_Witness ==
    \E r \in DOMAIN req :
        /\ req[r].pc = "building" /\ req[r].icon /\ req[r].html # "none"
        /\ ManifestAndGradleDone(ws[r]) /\ UrlDone(ws[r]) /\ UploadsInjected(r)

\* The workspace of the request is in use: the handler made it and has not
\* yet answered.
InFlight(q) == Handled(q) /\ ~Terminal(q)

\* C13: while a request is in flight no GET /download of its buildId is served
\* the artifact or changes the workspace, so a build that exits zero after the
\* tool wrote the artifact is never answered 'APK generation failed'.
C13_WorkspaceOwnedWhileInFlight ==
    [][\A r \in DOMAIN req :
          /\ \A d \in DOMAIN dl :
                (InFlight(req[r]) /\ dl'[d] # dl[d] /\ dl'[d].id = r) =>
                    dl'[d].status = 404 /\ ws'[r] = ws[r]
          /\ (req[r].pc = "packaged" /\ req'[r].exit = "zero") =>
                 req'[r].error # "APK generation failed"]_vars

\* C14: the workspaces of concurrent requests are disjoint.  A step of one
\* request's handler or build changes no workspace but its own, a workspace
\* is changed by no request but the one that made it, and a download of
\* buildId X changes no workspace other than X.
C14_WorkspacesDisjoint ==
    [][/\ \A r \in DOMAIN req : req'[r] # req[r] =>
              \A w \in DOMAIN ws \ {r} : ws'[w] = ws[w]
       /\ \A d \in DOMAIN dl : dl'[d] # dl[d] =>
              /\ req' = req
              /\ \A w \in DOMAIN ws \ {dl'[d].id} : ws'[w] = ws[w]]_vars

\* Two builds have produced their artifacts and a download has removed that
\* of the first, answered one: the second workspace still holds its artifact.
C14_Witness ==
    \E r1, r2 \in DOMAIN req, d \in DOMAIN dl :
        /\ r1 # r2 /\ req[r1].status = 200 /\ req[r2].pc = "packaged"
        /\ dl[d].pc = "done" /\ dl[d].id = r1 /\ dl[d].removed
        /\ ~ws[r1].apk /\ ws[r2].apk

\* The build of the request is running: exec() was called and its callback
\* has not run yet.
Building(q) == q.pc \in {"building", "packaged"}

\* The next step of request r's handler can be taken now.
CanStep(r) ==
    /\ req[r].pc = "staged" => ENABLED HandlerStart(r)
    /\ req[r].pc = "copy" => ENABLED CopyTemplate(r)
    /\ req[r].pc = "manifest" => ENABLED RewriteManifest(r)
    /\ req[r].pc = "gradle" => ENABLED RewriteGradle(r)
    /\ req[r].pc = "icon" => ENABLED InjectIcon(r)
    /\ req[r].pc = "html" => ENABLED InjectWeb(r)
    /\ req[r].pc = "main" => ENABLED RewriteMain(r)
    /\ Building(req[r]) => ENABLED ExecCallback(r, FALSE)
    /\ req[r].pc = "rmIcon" => ENABLED RemoveIconStaging(r)
    /\ req[r].pc = "rmHtml" => ENABLED RemoveHtmlStaging(r)

\* The download that arrived can be answered and the stream that ended can
\* run its callback now.
CanServe(d) ==
    /\ (dl[d].pc = "idle" /\ \A e \in DOMAIN dl : e < d => dl[e].pc # "idle") =>
           \A id \in DOMAIN ws : ENABLED DownloadStart(d, id)
    /\ dl[d].pc = "streaming" => ENABLED DownloadEnd(d, FALSE)

\* C15: no request waits on another request's build.  While a build is in
\* flight and the process is up, every other generate request can take its
\* next step and every download can be answered.
C15_NoWaitOnBuild ==
    \A r1 \in DOMAIN req :
        (Building(req[r1]) /\ serverUp) =>
            /\ \A r \in DOMAIN req \ {r1} : CanStep(r)
            /\ \A d \in DOMAIN dl : CanServe(d)

\* A later request has its response, and a download its answer, while the
\* build of an earlier request is still running.
C15_Witness ==
    \E r1, r2 \in DOMAIN req, d \in DOMAIN dl :
        /\ r1 < r2 /\ Building(req[r1])
        /\ req[r2].sent = 1 /\ req[r2].exit # "none"
        /\ dl[d].pc = "done"

\* No file is at the artifact path of buildId id: the directory never existed,
\* its build has not produced the artifact, or a download has removed it.
NoArtifactAt(id) ==
    IF id = TemplateId THEN ~template.apk ELSE id \notin DOMAIN ws \/ ~ws[id].apk

\* The one response of a download whose artifact is absent.
NotFound(id) == [NewDownload EXCEPT !.pc = "done", !.id = id, !.status = 404]

\* C16: a GET /download whose artifact is absent is answered 404, with the
\* same response whatever the reason of the absence, and changes nothing on
\* the filesystem.
C16_AbsentArtifactIs404 ==
    [][\A d \in DOMAIN dl :
          (dl[d].pc = "idle" /\ dl'[d].pc # "idle" /\ NoArtifactAt(dl'[d].id)) =>
              /\ dl'[d] = NotFound(dl'[d].id)
              /\ UNCHANGED <<template, stage, ws>>]_vars

\* A second download of a buildId whose artifact the first one removed has
\* been answered 404, the workspace directory still being there.
C16_Witness ==
    \E d1, d2 \in DOMAIN dl :
        /\ d1 < d2 /\ dl[d1].id = dl[d2].id /\ dl[d1].id \in DOMAIN ws
        /\ dl[d1].pc = "done" /\ dl[d1].status = 200 /\ dl[d1].removed
        /\ dl[d2] = NotFound(dl[d2].id)
        /\ ws[dl[d2].id].exists

\* C17: no step of the service, for any request and any buildId parameter,
\* changes the template.
C17_TemplateNeverMutated == [][template' = template]_vars

\* A workspace was copied from the template and rewritten, and a download
\* whose buildId resolves into the template directory has been answered.
C17_Witness ==
    \E r \in DOMAIN req, d \in DOMAIN dl :
        /\ ws[r].manifest # <<>> /\ ws[r].manifest # template.manifest
        /\ dl[d].pc = "done" /\ dl[d].id = TemplateId

\* C18: a generate request is sent at most one response, and once it is sent
\* the handler does nothing more for the request: its record and its staging
\* directories stay as they are, and its workspace changes only by a download.
C18_AtMostOneResponse ==
    [][\A r \in DOMAIN req :
          /\ req'[r].sent <= 1
          /\ req[r].sent >= 1 =>
                /\ req'[r] = req[r]
                /\ stage'[r] = stage[r]
                /\ ws'[r] # ws[r] => \E d \in DOMAIN dl : dl'[d] # dl[d]]_vars

\* A request was answered 200 and a download has since taken its artifact.
C18_Witness ==
    \E r \in DOMAIN req, d \in DOMAIN dl :
        /\ req[r].sent = 1 /\ req[r].status = 200
        /\ dl[d].pc = "done" /\ dl[d].id = r /\ dl[d].status = 200 /\ dl[d].removed

\* The request was answered with a failure: 400 or 500.
Failed(q) == q.sent >= 1 /\ q.status \in {400, 500}

\* The staging directories multer made for the request's uploads.
StagedFor(q) == [icon |-> q.icon, html |-> q.html # "none"]

\* C19: a failing outcome of POST /generate-app deletes nothing.  When the
\* failure is answered and ever after, the request's staging directories are
\* all there, its workspace directory, if made, is not removed, and its build
\* is not started again.
C19_FailureDeletesNothing ==
    [][\A r \in DOMAIN req :
          Failed(req'[r]) =>
              /\ stage'[r] = StagedFor(req'[r])
              /\ ws[r].exists => ws'[r].exists
              /\ ~Building(req'[r])]_vars

\* A build failed after the tool had written an artifact, the request had an
\* icon, and a later download took the artifact: the staging directory and
\* the workspace directory are still there.
C19_Witness ==
    \E r \in DOMAIN req, d \in DOMAIN dl :
        /\ Failed(req[r]) /\ req[r].error = "Failed to build APK" /\ req[r].icon
        /\ dl[d].pc = "done" /\ dl[d].id = r /\ dl[d].status = 200 /\ dl[d].removed
        /\ stage[r].icon /\ ws[r].exists

====
